---- MODULE Spec2Model ----
(***************************************************************************)
(* Roktrack coordination layer: the MonitorPerson pilot with its safety    *)
(* gate (module/pilot/monitor_person.rs), the BLE discovery worker and the *)
(* advertisement codec (module/com.rs).                                    *)
(***************************************************************************)
EXTENDS Integers, Sequences, FiniteSets, TLC

VARIABLES
    \* ---- MonitorPerson (monitor_person.rs) ----
    last_detected_time, \* MonitorPerson.last_detected_time, ms
    tick,               \* arguments of the latest handle() call and the clock it read
    cmds,               \* actuator commands issued by the latest handle() call, in order
    notify,             \* notification of the latest handle() call: "none" | "ok" | "failed"
    trace,              \* SpecWatch: one entry per handle() call, [now, notified, last]
    notified_at,        \* the clock readings of the calls that notified, in order
    \* ---- BleBroadCast::listen (com.rs) ----
    pc,                 \* one entry per worker thread listen() has spawned: the await it
                        \* stands at, "running" in the event loop, "finished", "panicked"
    rx_alive,           \* the Receiver<Neighbor> of the output channel still exists
    chan,               \* Neighbors sent on the channel and not yet received
    received,           \* Neighbors the consumer took off the channel, in order
    event,              \* the adapter event handled last
    by,                 \* the worker that handled it, 0 before any event
    accepted,           \* the handled events that were swarm frames, in arrival order
    \* ---- BleBroadCastInner (com.rs) ----
    adv_params,         \* arguments of the advertising-parameter command issued by new()
    adv_enable,         \* arguments of the advertising-enable command issued by new()
    adv,                \* arguments of the latest advertising-data command (cast), <<>> if none
    cast_args,          \* the arguments of the latest cast() call
    heard,              \* what a listening peer made of the latest frame it was handed
    \* ---- the decoder and the message vocabularies called on their own ----
    call,               \* the latest call: its function, its argument and what it returned
    \* ---- MonitorPerson::handle statement by statement ----
    hpc,                \* where the running handle() call stands, "idle" between calls
    lock                \* who holds the mutex of device.inner: "free" | "handle" | "other"

pilotVars == <<last_detected_time, tick, cmds, notify, trace, notified_at>>

stepVars == <<hpc, lock>>

comVars == <<pc, rx_alive, chan, received, event, by, accepted>>

castVars == <<adv_params, adv_enable, adv, cast_args, heard>>

vars == <<pilotVars, comVars, castVars, call, stepVars>>

----------------------------------------------------------------------------
(* Bounds *)

\* recorded handle() calls of one watch
MaxTicks == 4

\* swarm frames the discovery workers handle in one run
MaxFrames == 2

\* calls of listen()
MaxWorkers == 2

----------------------------------------------------------------------------
(* Neighbor and the decoder, com.rs *)

\* Modes::from_u8
Modes_from_u8(i) ==
    CASE i = 0 -> "Fill"
      [] i = 1 -> "OneWay"
      [] i = 2 -> "Climb"
      [] i = 3 -> "Around"
      [] i = 4 -> "MonitorPerson"
      [] i = 5 -> "MonitorAnimal"
      [] i = 6 -> "RoundTrip"
      [] i = 7 -> "FollowPerson"
      [] OTHER -> "Unknown"

Pow2(n) == IF n = 0 THEN 1 ELSE IF n = 1 THEN 2 ELSE IF n = 2 THEN 4 ELSE IF n = 3 THEN 8
           ELSE IF n = 4 THEN 16 ELSE IF n = 5 THEN 32 ELSE IF n = 6 THEN 64
           ELSE IF n = 7 THEN 128 ELSE 256

\* a BitReader that takes the least significant bit first
read_u8_LsbFirst(byte, pos, n) == (byte \div Pow2(pos)) % Pow2(n)

\* BitReader over a one-byte buffer: read_u8(n) at bit position pos, most
\* significant bit first
read_u8(byte, pos, n) == (byte \div Pow2(8 - pos - n)) % Pow2(n)

\* data[i], zero-based as in the source
At(data, i) == data[i + 1]

\* the indices from_manufacture_data reads
DecodeIndices == {3, 4, 5, 6, 7, 8}

\* from_manufacture_data panics (index out of bounds) on such a slice
DecodePanics(data) == \E i \in DecodeIndices : i >= Len(data)

Digit == <<"0", "1", "2", "3", "4", "5", "6", "7", "8", "9">>

\* i64::to_string of a non-negative number, as a sequence of characters
RECURSIVE to_string(_)
to_string(n) ==
    IF n < 10 THEN <<Digit[n + 1]>> ELSE Append(to_string(n \div 10), Digit[(n % 10) + 1])

\* Neighbor::from_manufacture_data for a slice it does not panic on; now is
\* the clock it reads (seconds)
from_manufacture_data(data, now) ==
    [timestamp |-> to_string(now), rssi |-> 0, mac |-> <<>>, manufacturer_id |-> 0,
     identifier |-> At(data, 3),
     state |-> read_u8(At(data, 4), 0, 1) # 0,
     rest |-> read_u8(At(data, 4), 1, 7),
     pi_temp |-> At(data, 5),
     mode |-> Modes_from_u8(At(data, 6)),
     msg |-> At(data, 7),
     dest |-> At(data, 8)]

----------------------------------------------------------------------------
(* The discovery worker, BleBroadCast::listen *)

\* the company id of swarm frames
SwarmCompanyId == 65535

\* str::replace on sequences of characters
RECURSIVE replace(_, _, _)
replace(s, from, to) ==
    IF Len(s) < Len(from) THEN s
    ELSE IF SubSeq(s, 1, Len(from)) = from
        THEN to \o replace(SubSeq(s, Len(from) + 1, Len(s)), from, to)
        ELSE <<s[1]>> \o replace(Tail(s), from, to)

\* "hci0/dev_"
Hci0DevPrefix == <<"h", "c", "i", "0", "/", "d", "e", "v", "_">>

\* the two replace calls of listen
NormalizeMac(id) == replace(replace(id, Hci0DevPrefix, <<>>), <<"_">>, <<":">>)

\* PeripheralId::to_string of the peripherals tried by the model
IdA == Hci0DevPrefix \o <<"A", "A", "_", "B", "B", "_", "C", "C", "_", "D", "D", "_", "E", "E", "_", "F", "F">>

IdB == <<"h", "c", "i", "1", "/", "d", "e", "v", "_">>
        \o <<"0", "1", "_", "2", "3", "_", "4", "5", "_", "6", "7", "_", "8", "9", "_", "A", "B">>

\* manufacturer payloads tried by the model
Frame9 == <<255, 255, 255, 7, 133, 45, 4, 15, 2>>

Frame10 == <<255, 255, 255, 1, 5, 71, 200, 0, 255, 0>>

Frame8 == <<255, 255, 255, 7, 133, 45, 4, 15>>

\* the event kinds of CentralEvent
ManufacturerData == "ManufacturerDataAdvertisement"

OtherKinds == {"DeviceDiscovered", "DeviceConnected", "DeviceDisconnected",
               "ServiceDataAdvertisement", "ServicesAdvertisement", "DeviceUpdated"}

\* a ManufacturerDataAdvertisement: manufacturer_data is listed in the
\* iteration order of the map, rssi is the signal strength the advertisement
\* was observed with
Adv(id, rssi, manufacturer_data) ==
    [kind |-> ManufacturerData, id |-> id, rssi |-> rssi, manufacturer_data |-> manufacturer_data]

Entry(key, data) == [key |-> key, data |-> data]

\* the adapter events tried by the model
Events ==
    { [kind |-> k, id |-> IdA, rssi |-> -40, manufacturer_data |-> <<>>] : k \in OtherKinds }
    \cup { Adv(IdA, -40, <<Entry(65535, Frame9)>>),
           Adv(IdB, -75, <<Entry(76, Frame9), Entry(65535, Frame10)>>),
           Adv(IdA, -40, <<Entry(65535, Frame8)>>),
           Adv(IdB, -75, <<Entry(76, Frame9)>>),
           Adv(IdA, -40, <<Entry(65535, Frame9), Entry(76, Frame8)>>),
           Adv(IdB, -75, <<>>) }

\* the chrono::Utc::now().timestamp() reading tried by the model
ClockReadings == {1700000009}

NoEvent == [kind |-> "None", id |-> <<>>, rssi |-> 0, manufacturer_data |-> <<>>]

\* manufacturer_data.keys().last() and .values().last()
LastEntry(e) == e.manufacturer_data[Len(e.manufacturer_data)]

\* the event is a manufacturer-data advertisement whose company id is 0xFFFF
IsSwarmFrame(e) ==
    /\ e.kind = ManufacturerData
    /\ e.manufacturer_data # <<>>
    /\ LastEntry(e).key = 65535

\* the filter of listen with the company id test dropped
Forwarded_AnyCompany(e) ==
    /\ e.kind = ManufacturerData
    /\ e.manufacturer_data # <<>>

\* the events whose arm of listen reaches the decoder
Forwarded(e) ==
    /\ e.kind = ManufacturerData
    /\ e.manufacturer_data # <<>>
    /\ LastEntry(e).key = SwarmCompanyId

\* the Neighbor listen builds for a swarm frame, decoded at clock reading now
NeighborOf(e, now) ==
    [from_manufacture_data(LastEntry(e).data, now) EXCEPT
        !.mac = NormalizeMac(e.id),
        !.manufacturer_id = LastEntry(e).key]

\* the event loop body with the result of send ignored
ListenPanics_SendIgnored(e, alive) ==
    /\ e.kind = ManufacturerData
    /\ \/ e.manufacturer_data = <<>>
       \/ /\ Forwarded(e)
          /\ DecodePanics(LastEntry(e).data)

\* the body of the event loop panics on this event: unwrap of last() on an
\* empty map, an index out of bounds in the decoder, or unwrap of a failed send
ListenPanics(e, alive) ==
    /\ e.kind = ManufacturerData
    /\ \/ e.manufacturer_data = <<>>
       \/ /\ Forwarded(e)
          /\ DecodePanics(LastEntry(e).data) \/ ~alive

ComInit ==
    /\ pc = <<>>
    /\ rx_alive = TRUE
    /\ chan = <<>>
    /\ received = <<>>
    /\ event = NoEvent
    /\ by = 0
    /\ accepted = <<>>

\* the awaits a worker goes through before its event loop, in order:
\* Manager::new(), manager.adapters(), central.events(), central.start_scan()
SetupPositions == {"manager", "adapters", "events", "scan"}

\* where a worker stands once the await it stood at has succeeded
AfterSetup(pos) ==
    CASE pos = "manager" -> "adapters"
      [] pos = "adapters" -> "events"
      [] pos = "events" -> "scan"
      [] pos = "scan" -> "running"

\* listen(): spawns a worker thread and returns its JoinHandle at once,
\* whether or not another worker is running; tx is a Sender of the channel
Listen ==
    /\ Len(pc) < MaxWorkers
    /\ pc' = Append(pc, "manager")
    /\ UNCHANGED <<rx_alive, chan, received, event, by, accepted, pilotVars, castVars, call, stepVars>>

\* worker w comes back from the await it stands at; the unwrap panics when
\* the manager, the adapter list or its first adapter, the event stream or
\* the scan is not available
Setup(w, ok) ==
    /\ pc[w] \in SetupPositions
    /\ pc' = [pc EXCEPT ![w] = IF ok THEN AfterSetup(pc[w]) ELSE "panicked"]
    /\ UNCHANGED <<rx_alive, chan, received, event, by, accepted, pilotVars, castVars, call, stepVars>>

\* one iteration of the event loop of worker w on the next event of its stream
OnEvent(w, e, now) ==
    /\ pc[w] = "running"
    /\ Len(accepted) < MaxFrames
    /\ event' = e
    /\ by' = w
    /\ accepted' = IF IsSwarmFrame(e) THEN Append(accepted, e) ELSE accepted
    /\ pc' = [pc EXCEPT ![w] = IF ListenPanics(e, rx_alive) THEN "panicked" ELSE "running"]
    /\ chan' = IF Forwarded(e) /\ ~ListenPanics(e, rx_alive)
                 THEN Append(chan, NeighborOf(e, now))
                 ELSE chan
    /\ UNCHANGED <<rx_alive, received, pilotVars, castVars, call, stepVars>>

\* events.next() yields None: the loop and the worker end
StreamEnd(w) ==
    /\ pc[w] = "running"
    /\ pc' = [pc EXCEPT ![w] = "finished"]
    /\ UNCHANGED <<rx_alive, chan, received, event, by, accepted, pilotVars, castVars, call, stepVars>>

\* the consumer takes the next Neighbor off the channel
Recv ==
    /\ rx_alive
    /\ chan # <<>>
    /\ received' = Append(received, Head(chan))
    /\ chan' = Tail(chan)
    /\ UNCHANGED <<pc, rx_alive, event, by, accepted, pilotVars, castVars, call, stepVars>>

\* the consumer drops the Receiver; what it had not received is discarded
DropReceiver ==
    /\ rx_alive
    /\ rx_alive' = FALSE
    /\ chan' = <<>>
    /\ UNCHANGED <<pc, received, event, by, accepted, pilotVars, castVars, call, stepVars>>

ComNext ==
    \/ Listen
    \/ \E w \in DOMAIN pc, ok \in BOOLEAN : Setup(w, ok)
    \/ \E w \in DOMAIN pc, e \in Events, now \in ClockReadings : OnEvent(w, e, now)
    \/ \E w \in DOMAIN pc : StreamEnd(w)
    \/ Recv
    \/ DropReceiver

----------------------------------------------------------------------------
(* The broadcaster, BleBroadCastInner *)

HexDigit == <<"0", "1", "2", "3", "4", "5", "6", "7", "8", "9", "A", "B", "C", "D", "E", "F">>

\* format!("{:02X}", x) for a u8
Hex02(x) == HexDigit[(x \div 16) + 1] \o HexDigit[(x % 16) + 1]

\* the header of cast: hcitool arguments up to the last FF
AdvHeader == <<"-i", "hci0", "cmd", "0x08", "0x0008", "1E", "02", "01", "06", "1A", "FF", "FF", "FF">>

\* cast that puts the data bytes before the identifier
cast_DataFirst(identifier, data) ==
    AdvHeader \o [i \in 1..Len(data) |-> Hex02(data[i])] \o <<Hex02(identifier)>>

\* cast: the arguments handed to hcitool
cast(identifier, data) ==
    LET payload_identifier == Hex02(identifier)
        payload_data == [i \in 1..Len(data) |-> Hex02(data[i])]
        payload == <<payload_identifier>> \o payload_data
    IN AdvHeader \o payload

\* BleBroadCastInner::new, the advertising-parameter command
AdvParamsCmd == <<"-i", "hci0", "cmd", "0x08", "0x0006", "A0", "00", "A0", "00", "03", "00", "00",
                  "00", "00", "00", "00", "00", "00", "07", "00">>

\* BleBroadCastInner::new, the advertising-enable command
AdvEnableCmd == <<"-i", "hci0", "cmd", "0x08", "0x000a", "01">>

\* the two-digit hexadecimal arguments hcitool reads, by the byte they stand for
HexTokens == [x \in 0..255 |-> HexDigit[(x \div 16) + 1] \o HexDigit[(x % 16) + 1]]

\* the byte a two-digit hexadecimal argument stands for
ParseHex(token) == CHOOSE x \in 0..255 : HexTokens[x] = token

\* the advertising data of a set-advertising-data command: the bytes after
\* "-i hci0 cmd 0x08 0x0008" and the length byte 1E
AdvertisingData(content) == [i \in 1..(Len(content) - 6) |-> ParseHex(content[i + 6])]

\* the AD elements of advertising data, each a length byte, a type byte and
\* length - 1 value bytes; an element the data ends in keeps the bytes it has
RECURSIVE AdElements(_)
AdElements(bytes) ==
    IF Len(bytes) < 2 \/ bytes[1] = 0 THEN <<>>
    ELSE LET last == IF 1 + bytes[1] < Len(bytes) THEN 1 + bytes[1] ELSE Len(bytes) IN
         <<[type |-> bytes[2], declared |-> bytes[1] - 1, value |-> SubSeq(bytes, 3, last)]>>
            \o AdElements(SubSeq(bytes, last + 1, Len(bytes)))

\* the manufacturer-specific element (AD type FF) of a frame of cast
ManufacturerElement(content) ==
    SelectSeq(AdElements(AdvertisingData(content)), LAMBDA el : el.type = 255)[1]

\* the bytes of the element as they arrive: those cast gave, or those filled
\* up with zeros to the length the header declares
ElementValue(el, padded) ==
    IF padded /\ Len(el.value) < el.declared
        THEN el.value \o [i \in 1..(el.declared - Len(el.value)) |-> 0]
        ELSE el.value

\* the ManufacturerDataAdvertisement a listening peer gets for a frame of
\* cast: the two bytes after the AD type are the company id, the key of
\* manufacturer_data in listen, and the bytes after them are its value
HeardEvent(content, padded) ==
    LET v == ElementValue(ManufacturerElement(content), padded) IN
    Adv(IdA, -40, <<Entry(v[1] + 256 * v[2], SubSeq(v, 3, Len(v)))>>)

\* identifiers and data passed to cast by the model
Identifiers == {7, 171}

CastData ==
    { <<packed, pi_temp, mode, 15, dest>> :
        packed \in {5, 133, 255}, pi_temp \in {45, 71}, mode \in {4, 200}, dest \in {2} }
    \cup { <<>>, <<133, 45, 4, 15>>, <<133, 45, 4, 15, 2, 9>> }

NoCast == [called |-> FALSE, identifier |-> 0, data |-> <<>>]

NotHeard == [status |-> "none"]

\* BleBroadCastInner::new
CastInit ==
    /\ adv_params = AdvParamsCmd
    /\ adv_enable = AdvEnableCmd
    /\ adv = <<>>
    /\ cast_args = NoCast
    /\ heard = NotHeard

\* cast(identifier, data)
Cast(identifier, data) ==
    /\ adv' = cast(identifier, data)
    /\ cast_args' = [called |-> TRUE, identifier |-> identifier, data |-> data]
    /\ UNCHANGED <<adv_params, adv_enable, heard, pilotVars, comVars, call, stepVars>>

\* a peer's listen handles the frame being broadcast at clock reading now;
\* of records the cast() call the frame came from
Hear(now, padded) ==
    LET e == HeardEvent(adv, padded) IN
    /\ adv # <<>>
    /\ heard' = IF ~Forwarded(e)
                  THEN [status |-> "filtered", of |-> cast_args, event |-> e]
                  ELSE IF DecodePanics(LastEntry(e).data)
                      THEN [status |-> "panic", of |-> cast_args, event |-> e]
                      ELSE [status |-> "decoded", of |-> cast_args, event |-> e,
                            neighbor |-> NeighborOf(e, now)]
    /\ UNCHANGED <<adv_params, adv_enable, adv, cast_args, pilotVars, comVars, call, stepVars>>

CastNext ==
    \/ \E identifier \in Identifiers, data \in CastData : Cast(identifier, data)
    \/ \E now \in ClockReadings, padded \in BOOLEAN : Hear(now, padded)

----------------------------------------------------------------------------
(* The message vocabularies, ChildMsg and ParentMsg *)

\* ChildMsg::from_u8
ChildMsg_from_u8(i) ==
    CASE i = 0 -> "Halt"
      [] i = 1 -> "Bumped"
      [] i = 2 -> "PersonFoundPause"
      [] i = 3 -> "ReachTarget"
      [] i = 4 -> "TargetLost"
      [] i = 5 -> "NewTargetFound"
      [] i = 6 -> "FromCwToCcw"
      [] i = 7 -> "PiTempHighHalt"
      [] i = 8 -> "MissionComplete"
      [] i = 9 -> "TargetNotFound"
      [] i = 10 -> "LeaderWaiting"
      [] i = 11 -> "TarailerPrepaired"
      [] i = 12 -> "ClimbUp"
      [] i = 13 -> "ClimbDown"
      [] i = 14 -> "Ack"
      [] i = 15 -> "PersonFoundWarn"
      [] i = 16 -> "AnimalFound"
      [] OTHER -> "Unknown"

\* ChildMsg::to_u8 with the ids of ClimbUp and ClimbDown exchanged
ChildMsg_to_u8_Swapped(msg) ==
    CASE msg = "Halt" -> 0
      [] msg = "Bumped" -> 1
      [] msg = "PersonFoundPause" -> 2
      [] msg = "ReachTarget" -> 3
      [] msg = "TargetLost" -> 4
      [] msg = "NewTargetFound" -> 5
      [] msg = "FromCwToCcw" -> 6
      [] msg = "PiTempHighHalt" -> 7
      [] msg = "MissionComplete" -> 8
      [] msg = "TargetNotFound" -> 9
      [] msg = "LeaderWaiting" -> 10
      [] msg = "TarailerPrepaired" -> 11
      [] msg = "ClimbUp" -> 13
      [] msg = "ClimbDown" -> 12
      [] msg = "Ack" -> 14
      [] msg = "PersonFoundWarn" -> 15
      [] msg = "AnimalFound" -> 16
      [] OTHER -> 255

\* ChildMsg::to_u8
ChildMsg_to_u8(msg) ==
    CASE msg = "Halt" -> 0
      [] msg = "Bumped" -> 1
      [] msg = "PersonFoundPause" -> 2
      [] msg = "ReachTarget" -> 3
      [] msg = "TargetLost" -> 4
      [] msg = "NewTargetFound" -> 5
      [] msg = "FromCwToCcw" -> 6
      [] msg = "PiTempHighHalt" -> 7
      [] msg = "MissionComplete" -> 8
      [] msg = "TargetNotFound" -> 9
      [] msg = "LeaderWaiting" -> 10
      [] msg = "TarailerPrepaired" -> 11
      [] msg = "ClimbUp" -> 12
      [] msg = "ClimbDown" -> 13
      [] msg = "Ack" -> 14
      [] msg = "PersonFoundWarn" -> 15
      [] msg = "AnimalFound" -> 16
      [] OTHER -> 255

\* ParentMsg::from_u8 with the ids 8 and 9 taken by Fill and Oneway
ParentMsg_from_u8_Dense(i) ==
    CASE i = 0 -> "Off"
      [] i = 1 -> "On"
      [] i = 2 -> "Reset"
      [] i = 3 -> "Stop"
      [] i = 4 -> "Forward"
      [] i = 5 -> "Backward"
      [] i = 6 -> "Left"
      [] i = 7 -> "Right"
      [] i = 8 -> "Fill"
      [] i = 9 -> "Oneway"
      [] i = 12 -> "Climb"
      [] i = 13 -> "Around"
      [] i = 14 -> "MonitorPerson"
      [] i = 15 -> "MonitorAnimal"
      [] i = 16 -> "RoundTrip"
      [] i = 17 -> "FollowPerson"
      [] OTHER -> "Unknown"

\* ParentMsg::from_u8
ParentMsg_from_u8(i) ==
    CASE i = 0 -> "Off"
      [] i = 1 -> "On"
      [] i = 2 -> "Reset"
      [] i = 3 -> "Stop"
      [] i = 4 -> "Forward"
      [] i = 5 -> "Backward"
      [] i = 6 -> "Left"
      [] i = 7 -> "Right"
      [] i = 10 -> "Fill"
      [] i = 11 -> "Oneway"
      [] i = 12 -> "Climb"
      [] i = 13 -> "Around"
      [] i = 14 -> "MonitorPerson"
      [] i = 15 -> "MonitorAnimal"
      [] i = 16 -> "RoundTrip"
      [] i = 17 -> "FollowPerson"
      [] OTHER -> "Unknown"

\* the values of a u8
Bytes == 0..255

\* no call yet
NoCall == [fn |-> "none"]

CallInit == call = NoCall

\* Neighbor::from_manufacture_data on a frame whose packed byte is byte
DecodeFlags(byte, now) ==
    LET neighbor == from_manufacture_data(<<255, 255, 255, 7, byte, 45, 4, 15, 2>>, now) IN
    /\ call' = [fn |-> "from_manufacture_data", arg |-> byte,
                state |-> neighbor.state, rest |-> neighbor.rest]
    /\ UNCHANGED <<pilotVars, comVars, castVars, stepVars>>

\* ChildMsg::to_u8(ChildMsg::from_u8(i))
ChildMsgRoundTrip(i) ==
    /\ call' = [fn |-> "ChildMsg", arg |-> i, msg |-> ChildMsg_from_u8(i),
                back |-> ChildMsg_to_u8(ChildMsg_from_u8(i))]
    /\ UNCHANGED <<pilotVars, comVars, castVars, stepVars>>

\* ChildMsg::to_u8(ChildMsg::Unknown)
ChildMsgUnknown ==
    /\ call' = [fn |-> "ChildMsg::to_u8", msg |-> "Unknown", back |-> ChildMsg_to_u8("Unknown")]
    /\ UNCHANGED <<pilotVars, comVars, castVars, stepVars>>

\* ParentMsg::from_u8(i); ParentMsg has no to_u8 to take the result back
ParentMsgFromU8(i) ==
    /\ call' = [fn |-> "ParentMsg", arg |-> i, msg |-> ParentMsg_from_u8(i)]
    /\ UNCHANGED <<pilotVars, comVars, castVars, stepVars>>

FlagsNext == \E byte \in Bytes, now \in ClockReadings : DecodeFlags(byte, now)

ChildMsgNext == (\E i \in Bytes : ChildMsgRoundTrip(i)) \/ ChildMsgUnknown

ParentMsgNext == \E i \in Bytes : ParentMsgFromU8(i)

----------------------------------------------------------------------------
(* MonitorPerson *)

\* self.last_detected_time + 60000 < now
NotifyInterval == 60000

\* state.pi_temp > 70.0, temperatures are kept in tenths of a degree
HighTempLimit == 700

\* clock readings (chrono::Utc::now().timestamp_millis()) tried by the model
Instants == {0, 59999, 60000, 60001, 120001, 120002}

\* RoktrackState.pi_temp values tried by the model, tenths of a degree
Temperatures == {450, 699, 700, 701, 850}

\* detection classes and the detection slices tried by the model
PERSON == "PERSON"

DetectionSets == { <<>>, <<"PYLON">>, <<PERSON>>, <<"PYLON", PERSON>>, <<PERSON, PERSON>> }

\* RoktrackClasses::filter(detections, cls)
filter(detections, cls) == SelectSeq(detections, LAMBDA d : d = cls)

\* device.inner.lock().speak(tag)
Speak(tag) == [op |-> "speak", tag |-> tag]

\* base::stop(device)
stop == [op |-> "stop", tag |-> ""]

\* assess_system_risk with the enabled test dropped
assess_system_risk_NoStateOff(state) ==
    IF state.pi_temp > HighTempLimit
        THEN [risk |-> "HighTemp", said |-> <<Speak("high_temp")>>]
        ELSE [risk |-> "None", said |-> <<>>]

\* assess_system_risk with >= in place of >
assess_system_risk_AtLimit(state) ==
    IF ~state.state
        THEN [risk |-> "StateOff", said |-> <<>>]
        ELSE IF state.pi_temp >= HighTempLimit
            THEN [risk |-> "HighTemp", said |-> <<Speak("high_temp")>>]
            ELSE [risk |-> "None", said |-> <<>>]

\* assess_system_risk: the risk and the actuator commands it issues on the way
assess_system_risk(state) ==
    IF ~state.state
        THEN [risk |-> "StateOff", said |-> <<>>]
        ELSE IF state.pi_temp > HighTempLimit
            THEN [risk |-> "HighTemp", said |-> <<Speak("high_temp")>>]
            ELSE [risk |-> "None", said |-> <<>>]

\* the throttle test with <= in place of <
IntervalElapsed_Inclusive(last, now) == last + NotifyInterval <= now

\* the throttle test that lets the first detection through
IntervalElapsed_FirstFree(last, now) == last = 0 \/ last + NotifyInterval < now

\* the throttle test of handle()
IntervalElapsed(last, now) == last + NotifyInterval < now

\* no handle() call yet
NoTick == [ran |-> FALSE, state |-> [state |-> FALSE, pi_temp |-> 0], detections |-> <<>>,
           now |-> 0, before |-> 0]

\* MonitorPerson::new
PilotInit ==
    /\ last_detected_time = 0
    /\ tick = NoTick
    /\ cmds = <<>>
    /\ notify = "none"
    /\ trace = <<>>
    /\ notified_at = <<>>

----------------------------------------------------------------------------
(* MonitorPerson::handle statement by statement *)

\* the statements of handle that command the actuator
CommandPositions == {"high_temp", "stop", "warn"}

\* the command each of them issues under the lock of device.inner
CommandAt(pos) ==
    CASE pos = "high_temp" -> Speak("high_temp")
      [] pos = "stop" -> stop
      [] pos = "warn" -> Speak("person_detecting_warn")

\* the position of a command while its MutexGuard lives
Holding(pos) ==
    CASE pos = "high_temp" -> "high_temp_locked"
      [] pos = "stop" -> "stop_locked"
      [] pos = "warn" -> "warn_locked"

\* where control goes once the command's statement has ended
AfterCommand(pos) ==
    CASE pos = "high_temp" -> "stop"
      [] pos = "stop" -> "idle"
      [] pos = "warn" -> "throttle"

\* a MutexGuard kept by assess_system_risk beyond its speak statement
LockAfter_Held(pos) == IF pos = "high_temp" THEN "handle" ELSE "free"

\* the MutexGuard is a temporary: it is dropped at the end of the statement
LockAfter(pos) == "free"

\* the detections test with the throttle decided before the warning
AfterDetect_ThrottleFirst(detections) ==
    IF filter(detections, PERSON) # <<>> THEN "throttle" ELSE "idle"

\* the detections test: the warning if a PERSON is present, else return
AfterDetect(detections) ==
    IF filter(detections, PERSON) # <<>> THEN "warn" ELSE "idle"

StepInit ==
    /\ hpc = "idle"
    /\ lock = "free"

\* handle() is called with this own-state and these detections
Enter(enabled, temp, detections) ==
    /\ hpc = "idle"
    /\ tick' = [ran |-> TRUE, state |-> [state |-> enabled, pi_temp |-> temp],
                detections |-> detections, now |-> tick.now, before |-> last_detected_time]
    /\ cmds' = <<>>
    /\ notify' = "none"
    /\ hpc' = "assess"
    /\ UNCHANGED <<last_detected_time, trace, notified_at, lock, comVars, castVars, call>>

\* the tests of assess_system_risk
Assess ==
    /\ hpc = "assess"
    /\ hpc' = CASE assess_system_risk(tick.state).risk = "StateOff" -> "stop"
                [] assess_system_risk(tick.state).risk = "HighTemp" -> "high_temp"
                [] OTHER -> "detect"
    /\ UNCHANGED <<pilotVars, lock, comVars, castVars, call>>

\* device.inner.clone().lock().unwrap() of a command: waits while the mutex is taken
Acquire ==
    \E pos \in CommandPositions :
        /\ hpc = pos
        /\ lock = "free"
        /\ lock' = "handle"
        /\ hpc' = Holding(pos)
        /\ UNCHANGED <<pilotVars, comVars, castVars, call>>

\* the command itself and the end of its statement
Execute ==
    \E pos \in CommandPositions :
        /\ hpc = Holding(pos)
        /\ cmds' = Append(cmds, CommandAt(pos))
        /\ lock' = LockAfter(pos)
        /\ hpc' = AfterCommand(pos)
        /\ UNCHANGED <<last_detected_time, tick, notify, trace, notified_at, comVars, castVars, call>>

\* the test on the filtered detections
Detect ==
    /\ hpc = "detect"
    /\ hpc' = AfterDetect(tick.detections)
    /\ UNCHANGED <<pilotVars, lock, comVars, castVars, call>>

\* the throttle that restarts the window on every detection
ThrottleStep_Debounce(now) ==
    /\ hpc = "throttle"
    /\ tick' = [tick EXCEPT !.now = now]
    /\ last_detected_time' = now
    /\ hpc' = IF IntervalElapsed(last_detected_time, now) THEN "notify" ELSE "idle"
    /\ UNCHANGED <<cmds, notify, notified_at, lock, comVars, castVars, call>>

\* the clock is read, whatever it shows, and the interval tested;
\* last_detected_time is set before the notification is sent
ThrottleStep(now) ==
    /\ hpc = "throttle"
    /\ tick' = [tick EXCEPT !.now = now]
    /\ IF IntervalElapsed(last_detected_time, now)
        THEN /\ last_detected_time' = now
             /\ hpc' = "notify"
        ELSE /\ last_detected_time' = last_detected_time
             /\ hpc' = "idle"
    /\ UNCHANGED <<cmds, notify, notified_at, lock, comVars, castVars, call>>

\* a notification whose failure takes back the assignment of last_detected_time
NotifyStep_RollBack(delivered) ==
    /\ hpc = "notify"
    /\ notify' = IF delivered THEN "ok" ELSE "failed"
    /\ notified_at' = IF delivered THEN Append(notified_at, tick.now) ELSE notified_at
    /\ last_detected_time' = IF delivered THEN last_detected_time ELSE tick.before
    /\ hpc' = "idle"
    /\ UNCHANGED <<tick, cmds, lock, comVars, castVars, call>>

\* send_line_notify_with_image, delivered or not: its result is discarded
NotifyStep(delivered) ==
    /\ hpc = "notify"
    /\ notify' = IF delivered THEN "ok" ELSE "failed"
    /\ notified_at' = Append(notified_at, tick.now)
    /\ hpc' = "idle"
    /\ UNCHANGED <<last_detected_time, tick, cmds, lock, comVars, castVars, call>>

Throttle(now) ==
    /\ ThrottleStep(now)
    /\ UNCHANGED trace

Notify(delivered) ==
    /\ NotifyStep(delivered)
    /\ UNCHANGED trace

\* another holder of the shared device handle takes the mutex
OtherAcquire ==
    /\ lock = "free"
    /\ lock' = "other"
    /\ UNCHANGED <<pilotVars, hpc, comVars, castVars, call>>

\* and gives it back
OtherRelease ==
    /\ lock = "other"
    /\ lock' = "free"
    /\ UNCHANGED <<pilotVars, hpc, comVars, castVars, call>>

StepNext ==
    \/ \E enabled \in BOOLEAN, temp \in Temperatures, detections \in DetectionSets :
        Enter(enabled, temp, detections)
    \/ Assess
    \/ Acquire
    \/ Execute
    \/ Detect
    \/ \E now \in Instants : Throttle(now)
    \/ \E delivered \in BOOLEAN : Notify(delivered)
    \/ OtherAcquire
    \/ OtherRelease

\* a call of handle() while the system is enabled and cool and a person
\* stays in view; the watch records such calls in trace
WatchEnter(temp, detections) ==
    /\ Len(trace) < MaxTicks
    /\ temp <= HighTempLimit
    /\ filter(detections, PERSON) # <<>>
    /\ Enter(TRUE, temp, detections)

\* the throttle of a watched call; a suppressed call returns here
WatchThrottle(now) ==
    /\ ThrottleStep(now)
    /\ trace' = IF hpc' = "idle"
                  THEN Append(trace, [now |-> now, notified |-> FALSE,
                                      last |-> last_detected_time'])
                  ELSE trace

\* the notification of a watched call, which returns after it
WatchNotify(delivered) ==
    /\ NotifyStep(delivered)
    /\ trace' = Append(trace, [now |-> tick.now, notified |-> TRUE,
                               last |-> last_detected_time'])

WatchNext ==
    \/ \E temp \in Temperatures, detections \in DetectionSets : WatchEnter(temp, detections)
    \/ Assess
    \/ Acquire
    \/ Execute
    \/ Detect
    \/ \E now \in Instants : WatchThrottle(now)
    \/ \E delivered \in BOOLEAN : WatchNotify(delivered)
    \/ OtherAcquire
    \/ OtherRelease

----------------------------------------------------------------------------
(* Specifications *)

\* a constructed MonitorPerson and a constructed BleBroadCast whose listen()
\* has not run
Init == PilotInit /\ ComInit /\ CastInit /\ CallInit /\ StepInit

\* the statements of handle() while a person is in view, each call recorded
SpecWatch == Init /\ [][WatchNext]_vars

\* the discovery worker, its adapter events and the consumer of the channel
SpecCom == Init /\ [][ComNext]_vars

\* a broadcaster and a peer decoding what it broadcasts
SpecCast == Init /\ [][CastNext]_vars

\* the statements of handle() on arbitrary ticks, interleaved with another
\* holder of the device
SpecSteps == Init /\ [][StepNext]_vars

\* the decoder applied to every value of the packed byte
SpecFlags == Init /\ [][FlagsNext]_vars

\* ChildMsg applied to every byte
SpecChildMsg == Init /\ [][ChildMsgNext]_vars

\* ParentMsg applied to every byte
SpecParentMsg == Init /\ [][ParentMsgNext]_vars

----------------------------------------------------------------------------
(* Properties of MonitorPerson *)

PersonSeen == filter(tick.detections, PERSON) # <<>>

GatePassed == tick.ran /\ tick.state.state /\ tick.state.pi_temp <= 700

Said(tag) == \E i \in 1..Len(cmds) : cmds[i] = Speak(tag)

\* handle() has returned from a call
Returned == tick.ran /\ hpc = "idle"

\* the statements of the behaviour body, after the safety gate
BodyPositions == {"detect", "warn", "warn_locked", "throttle", "notify"}

\* C1: a handle() call with own-state.enabled = false commands stop and
\* nothing else: no "person_detecting_warn", no "high_temp", no notification,
\* and last_detected_time keeps its value.
C1_DisabledStopsOnly ==
    (tick.ran /\ ~tick.state.state) =>
        /\ Returned => cmds = <<stop>>
        /\ hpc \notin BodyPositions
        /\ ~Said("person_detecting_warn")
        /\ ~Said("high_temp")
        /\ notify = "none"
        /\ last_detected_time = tick.before

C1_Witness ==
    /\ Returned /\ ~tick.state.state
    /\ PersonSeen /\ tick.state.pi_temp > 700
    /\ tick.before = 60001 /\ last_detected_time = 60001
    /\ cmds = <<stop>>

\* C2: a handle() call with enabled = true and temperature > 70.0 says
\* "high_temp", commands stop and runs no behaviour logic; with temperature
\* <= 70.0 the gate commands nothing and the behaviour body runs (the warning
\* is spoken exactly when a person is detected).
C2_TemperatureGate ==
    (tick.ran /\ tick.state.state) =>
        /\ tick.state.pi_temp > 700 =>
            /\ Returned => cmds = <<Speak("high_temp"), stop>>
            /\ hpc \notin BodyPositions
            /\ notify = "none"
            /\ last_detected_time = tick.before
        /\ tick.state.pi_temp <= 700 =>
            /\ ~Said("high_temp")
            /\ stop \notin { cmds[i] : i \in 1..Len(cmds) }
            /\ hpc \in BodyPositions \cup {"assess", "idle"}
            /\ Returned =>
                /\ cmds = IF PersonSeen THEN <<Speak("person_detecting_warn")>> ELSE <<>>
                /\ (PersonSeen /\ tick.before + 60000 < tick.now) => notify # "none"

C2_Witness ==
    /\ Returned /\ tick.state.state /\ tick.state.pi_temp = 700
    /\ PersonSeen /\ cmds = <<Speak("person_detecting_warn")>>
    /\ notify # "none"

\* C6: on a gate-passing tick with a PERSON detection a notification is sent
\* iff last_detected_time + 60000 < now; sending sets last_detected_time to
\* now, suppressing leaves it; without a PERSON detection nothing is sent and
\* last_detected_time is left alone.
C6_ThrottleRule ==
    (Returned /\ GatePassed) =>
        /\ PersonSeen =>
            /\ (notify # "none") <=> (tick.before + 60000 < tick.now)
            /\ (notify # "none") => last_detected_time = tick.now
            /\ (notify = "none") => last_detected_time = tick.before
        /\ ~PersonSeen => (notify = "none" /\ last_detected_time = tick.before)

C6_Witness ==
    /\ Returned /\ GatePassed /\ PersonSeen
    /\ tick.before = 60001 /\ tick.now = 120001
    /\ notify = "none" /\ last_detected_time = 60001

\* the instants of the recorded ticks
TraceNows == [i \in 1..Len(trace) |-> trace[i].now]

BoundaryInstants == <<0, 59999, 60000, 60001>>

\* the recorded ticks follow BoundaryInstants, as far as they go
OnBoundaryRun ==
    \A i \in 1..Len(trace) : i <= Len(BoundaryInstants) => trace[i].now = BoundaryInstants[i]

\* C7 as stated: from a fresh MonitorPerson with a person in view, the
\* detection at now = 0 notifies (and 59999, 60000 do not, 60001 does).
C7_Stated ==
    (Len(trace) >= 1 /\ OnBoundaryRun) =>
        /\ trace[1].notified /\ trace[1].last = 0
        /\ Len(trace) >= 2 => ~trace[2].notified
        /\ Len(trace) >= 3 => ~trace[3].notified
        /\ Len(trace) >= 4 => trace[4].notified

\* C7, amended: from a fresh MonitorPerson (last_detected_time = 0) with a
\* person in view, the detections at now = 0, 59999 and 60000 do not notify
\* and leave last_detected_time = 0; the detection at now = 60001 notifies
\* and sets last_detected_time = 60001.
C7_LiteralBoundary ==
    (Len(trace) >= 1 /\ OnBoundaryRun) =>
        /\ ~trace[1].notified /\ trace[1].last = 0
        /\ Len(trace) >= 2 => (~trace[2].notified /\ trace[2].last = 0)
        /\ Len(trace) >= 3 => (~trace[3].notified /\ trace[3].last = 0)
        /\ Len(trace) >= 4 => (trace[4].notified /\ trace[4].last = 60001)

C7_Witness ==
    /\ TraceNows = BoundaryInstants
    /\ OnBoundaryRun
    /\ trace[4].notified
    /\ last_detected_time = 60001

----------------------------------------------------------------------------
(* Properties of the discovery worker *)

\* worker w handles event e in this step
HandledBy(w, e) == \E now \in ClockReadings : OnEvent(w, e, now)

\* a worker handles event e in this step
Handled(e) == \E w \in DOMAIN pc : HandledBy(w, e)

\* a swarm frame whose payload cannot hold the prefix and the record
ShortFrame(e) == IsSwarmFrame(e) /\ Len(LastEntry(e).data) < 9

\* an event the filter of the worker discards
FilteredOut(e) ==
    \/ e.kind \in OtherKinds
    \/ /\ e.kind = ManufacturerData
       /\ e.manufacturer_data # <<>>
       /\ LastEntry(e).key # 65535

\* the Neighbors placed on the channel so far, while the receiver lives
Placed == received \o chan

\* C3: a Neighbor is put on the channel only by a step handling a
\* manufacturer-data advertisement whose company id is 0xFFFF; a step
\* handling any other event (another company id whatever its payload, or
\* another event kind) leaves the channel as it was.
C3_ForwardingFilter ==
    [][ /\ Len(chan') > Len(chan) =>
            /\ IsSwarmFrame(event')
            /\ chan'[Len(chan')].manufacturer_id = 65535
            /\ SubSeq(chan', 1, Len(chan)) = chan
            /\ Len(chan') = Len(chan) + 1
        /\ \A e \in Events : (Handled(e) /\ ~IsSwarmFrame(e)) =>
            (chan' = chan /\ received' = received)
      ]_vars

C3_Witness ==
    /\ by = 2
    /\ pc = <<"manager", "running">>
    /\ event = Adv(IdB, -75, <<Entry(76, Frame9)>>)
    /\ Len(accepted) = 1 /\ Len(chan) = 1

\* C4 as stated: a swarm frame with fewer than 9 payload bytes is dropped
\* without ending the worker: after handling it the worker has not panicked.
C4_Stated == ShortFrame(event) => pc[by] # "panicked"

\* C5 as stated: while the receiver is alive the Neighbors placed on the
\* channel are, one for one and in order, the swarm frames handled so far.
C5_Stated ==
    rx_alive =>
        /\ Len(Placed) = Len(accepted)
        /\ \A i \in 1..Len(Placed) :
            /\ Len(LastEntry(accepted[i]).data) >= 9
            /\ \E now \in ClockReadings : Placed[i] = NeighborOf(accepted[i], now)

\* C9 as stated: a delivered Neighbor carries the company id 0xFFFF, a
\* filled mac and the signal strength its advertisement was observed with.
C9_Stated ==
    (IsSwarmFrame(event) /\ pc[by] = "running" /\ chan # <<>>) =>
        /\ chan[Len(chan)].manufacturer_id = 65535
        /\ chan[Len(chan)].mac # <<>>
        /\ chan[Len(chan)].rssi = event.rssi

\* C10: with the receiver gone, the step of a worker handling a swarm frame
\* ends that worker and puts nothing on the channel; an ended worker stays
\* ended and handles no further event; a step handling a filtered-out event
\* while the receiver is gone leaves its worker running.
C10_ReceiverGoneTerminal ==
    [][ \A w \in DOMAIN pc :
        /\ \A e \in Events : (HandledBy(w, e) /\ ~rx_alive /\ IsSwarmFrame(e)) =>
            (pc'[w] = "panicked" /\ chan' = chan /\ received' = received)
        /\ pc[w] = "panicked" =>
            (pc'[w] = "panicked" /\ \A e \in Events : ~HandledBy(w, e))
        /\ \A e \in Events : (HandledBy(w, e) /\ ~rx_alive /\ FilteredOut(e)) =>
            pc'[w] = "running"
      ]_vars

C10_Witness ==
    /\ ~rx_alive
    /\ pc = <<"panicked">>
    /\ by = 1
    /\ event = Adv(IdA, -40, <<Entry(65535, Frame9)>>)
    /\ Len(accepted) = 2
    /\ chan = <<>> /\ Len(received) = 1

----------------------------------------------------------------------------
(* Properties of the codec *)

\* C8 as stated: a peer that is handed the frame broadcast by
\* cast(identifier, data), data holding at least the five record bytes after
\* the identifier, decodes it and gets the identifier and the record fields
\* cast was given: state and rest from data[0], then pi_temp, mode, msg and
\* dest.
C8_Stated ==
    (heard.status # "none" /\ Len(heard.of.data) >= 5) =>
        /\ heard.status = "decoded"
        /\ heard.neighbor.identifier = heard.of.identifier
        /\ heard.neighbor.state = (heard.of.data[1] >= 128)
        /\ heard.neighbor.rest = heard.of.data[1] % 128
        /\ heard.neighbor.pi_temp = heard.of.data[2]
        /\ heard.neighbor.mode = Modes_from_u8(heard.of.data[3])
        /\ heard.neighbor.msg = heard.of.data[4]
        /\ heard.neighbor.dest = heard.of.data[5]

----------------------------------------------------------------------------
(* Properties of MonitorPerson, continued *)

\* C11: a handle() call that attempts a notification returns normally whether
\* the delivery succeeds or fails: either outcome ends the call with the same
\* last_detected_time and the same actuator commands, no lock held; and after
\* a failed delivery the next tick is taken whatever it brings, the safety
\* gate included.
C11_FailureIgnored ==
    /\ hpc = "notify" =>
        \A delivered \in BOOLEAN :
            ENABLED (/\ Notify(delivered)
                     /\ hpc' = "idle"
                     /\ last_detected_time' = tick.now
                     /\ cmds' = <<Speak("person_detecting_warn")>>
                     /\ notified_at' = Append(notified_at, tick.now))
    /\ notify = "failed" =>
        /\ Returned
        /\ last_detected_time = tick.now
        /\ cmds = <<Speak("person_detecting_warn")>>
        /\ lock # "handle"
        /\ \A enabled \in BOOLEAN, temp \in Temperatures, detections \in DetectionSets :
            ENABLED Enter(enabled, temp, detections)

C11_Witness ==
    /\ Returned
    /\ notify = "failed"
    /\ tick.before = 60001 /\ tick.now = 120002
    /\ last_detected_time = 120002
    /\ cmds = <<Speak("person_detecting_warn")>>

----------------------------------------------------------------------------
(* Properties of the broadcaster *)

\* the advertising-data bytes of the latest cast: the arguments after
\* "-i hci0 cmd 0x08 0x0008"
AdvBytes == SubSeq(adv, 6, Len(adv))

UpperHexTokens == { HexTokens[x] : x \in 0..255 }

\* C12: after any sequence of cast calls the advertising data is the encoding
\* of the latest call alone, header 1E 02 01 06 1A FF FF FF, then the
\* identifier, then every byte of data in order, each a two-digit uppercase
\* hexadecimal token; the advertising parameters and the advertising enable
\* programmed at construction are what they were.
C12_CastReplaces ==
    /\ adv_params = <<"-i", "hci0", "cmd", "0x08", "0x0006", "A0", "00", "A0", "00", "03", "00",
                      "00", "00", "00", "00", "00", "00", "00", "07", "00">>
    /\ adv_enable = <<"-i", "hci0", "cmd", "0x08", "0x000a", "01">>
    /\ cast_args.called =>
        /\ SubSeq(adv, 1, 5) = <<"-i", "hci0", "cmd", "0x08", "0x0008">>
        /\ Len(AdvBytes) = 8 + 1 + Len(cast_args.data)
        /\ SubSeq(AdvBytes, 1, 8) = <<"1E", "02", "01", "06", "1A", "FF", "FF", "FF">>
        /\ \A i \in 1..Len(AdvBytes) : AdvBytes[i] \in UpperHexTokens
        /\ ParseHex(AdvBytes[9]) = cast_args.identifier
        /\ \A i \in 1..Len(cast_args.data) : ParseHex(AdvBytes[9 + i]) = cast_args.data[i]

C12_Witness ==
    /\ heard.status # "none" /\ heard.of.identifier = 171
    /\ cast_args = [called |-> TRUE, identifier |-> 7, data |-> <<5, 45, 200, 15, 2>>]
    /\ AdvBytes = <<"1E", "02", "01", "06", "1A", "FF", "FF", "FF", "07", "05", "2D", "C8", "0F", "02">>

----------------------------------------------------------------------------
(* Properties of the decoder and of the message vocabularies *)

\* the byte that packs state and rest: (state << 7) | rest
Packed(state, rest) == (IF state THEN 128 ELSE 0) + rest

\* C13: decoding a frame whose packed byte is b yields state = ((b >> 7) & 1 = 1)
\* and rest = b & 0x7F, so rest is in 0..127, and for every state and every rest
\* in 0..127 the byte (state << 7) | rest decodes to exactly that pair.
C13_FlagPacking ==
    call.fn = "from_manufacture_data" =>
        /\ call.state = ((call.arg \div 128) % 2 = 1)
        /\ call.rest = call.arg % 128
        /\ call.rest \in 0..127
        /\ \A state \in BOOLEAN, rest \in 0..127 :
            call.arg = Packed(state, rest) => (call.state = state /\ call.rest = rest)

C13_Witness ==
    /\ call.fn = "from_manufacture_data"
    /\ call.arg = Packed(TRUE, 45)
    /\ call.state
    /\ call.rest = 45

----------------------------------------------------------------------------
(* Properties of the discovery worker, continued *)

\* "/dev_"
DevSegment == <<"/", "d", "e", "v", "_">>

\* what follows the first "/dev_" of an adapter-native identity
RECURSIVE AfterDev(_)
AfterDev(id) ==
    IF Len(id) < Len(DevSegment) THEN <<>>
    ELSE IF SubSeq(id, 1, Len(DevSegment)) = DevSegment
        THEN SubSeq(id, Len(DevSegment) + 1, Len(id))
        ELSE AfterDev(Tail(id))

\* the six octets of an identity in colon notation
ColonMac(id) == [i \in 1..Len(AfterDev(id)) |->
                    IF AfterDev(id)[i] = "_" THEN ":" ELSE AfterDev(id)[i]]

\* C14: whatever the adapter prefix of the identity "<prefix>/dev_XX_.._XX",
\* the Neighbor forwarded for it carries mac "XX:..:XX": the whole
\* "<prefix>/dev_" segment removed, the five underscores turned into colons.
C14_Stated ==
    [][ \A e \in Events :
            (Handled(e) /\ Len(chan') > Len(chan)) =>
                chan'[Len(chan')].mac = ColonMac(e.id) ]_vars

----------------------------------------------------------------------------
(* Properties of the message vocabularies *)

\* the named variants of ChildMsg
ChildVariants ==
    {"Halt", "Bumped", "PersonFoundPause", "ReachTarget", "TargetLost", "NewTargetFound",
     "FromCwToCcw", "PiTempHighHalt", "MissionComplete", "TargetNotFound", "LeaderWaiting",
     "TarailerPrepaired", "ClimbUp", "ClimbDown", "Ack", "PersonFoundWarn", "AnimalFound"}

\* C15: ChildMsg::from_u8 returns a variant for every byte; for i in 0..16 it
\* returns a named variant no other id in 0..16 maps to and to_u8 takes it
\* back to i; for i in 17..255 it returns Unknown; to_u8(Unknown) is 255.
C15_ChildMsgRoundTrip ==
    /\ call.fn = "ChildMsg" =>
        /\ call.msg \in ChildVariants \cup {"Unknown"}
        /\ call.arg \in 0..16 =>
            /\ call.msg \in ChildVariants
            /\ call.back = call.arg
            /\ \A j \in 0..16 : j # call.arg => ChildMsg_from_u8(j) # call.msg
        /\ call.arg \in 17..255 =>
            /\ call.msg = "Unknown"
            /\ call.back = 255
    /\ call.fn = "ChildMsg::to_u8" => (call.msg = "Unknown" /\ call.back = 255)

C15_Witness ==
    /\ call.fn = "ChildMsg"
    /\ call.arg = 13
    /\ call.msg = "ClimbDown"
    /\ call.back = 13

\* the named variants of ParentMsg
ParentVariants ==
    {"Off", "On", "Reset", "Stop", "Forward", "Backward", "Left", "Right", "Fill", "Oneway",
     "Climb", "Around", "MonitorPerson", "MonitorAnimal", "RoundTrip", "FollowPerson"}

\* the ids ParentMsg::from_u8 maps to a named variant
ParentIds == (0..7) \cup (10..17)

\* what from_u8 does on the byte of the latest ParentMsg call
ParentFromU8Holds ==
    /\ call.msg \in ParentVariants \cup {"Unknown"}
    /\ call.arg \in ParentIds =>
        /\ call.msg \in ParentVariants
        /\ \A j \in ParentIds : j # call.arg => ParentMsg_from_u8(j) # call.msg
    /\ call.arg \notin ParentIds => call.msg = "Unknown"

\* C16 as stated: ParentMsg::from_u8 maps each id in {0..7, 10..17} to its own
\* named variant and every other byte to Unknown, and ParentMsg::to_u8 takes
\* the variant of every mapped id back to that id.
C16_Stated ==
    call.fn = "ParentMsg" =>
        /\ ParentFromU8Holds
        /\ "back" \in DOMAIN call
        /\ call.arg \in ParentIds => call.back = call.arg

\* C16: ParentMsg::from_u8 returns a variant for every byte, maps each id in
\* {0..7, 10..17} to a named variant no other such id maps to and every other
\* byte (8, 9, 18..255) to Unknown; nothing takes a ParentMsg back to a byte.
C16_ParentFromU8 ==
    call.fn = "ParentMsg" =>
        /\ ParentFromU8Holds
        /\ DOMAIN call = {"fn", "arg", "msg"}

C16_Witness ==
    /\ call.fn = "ParentMsg"
    /\ call.arg = 10
    /\ call.msg = "Fill"
    /\ "back" \notin DOMAIN call

----------------------------------------------------------------------------
(* Properties of MonitorPerson::handle statement by statement *)

\* the statements of handle from the notification decision on
Deciding == hpc \in {"throttle", "notify"}

\* C17: a call that passes the gate has vocalized "person_detecting_warn" when
\* it returns if and only if its detections hold a PERSON, whether or not it
\* notified; the notification decision is reached only with the warning
\* already issued, and no notification goes out without it.
C17_WarnOnEveryPresentTick ==
    /\ (Returned /\ GatePassed) => (Said("person_detecting_warn") <=> PersonSeen)
    /\ Deciding => (GatePassed /\ PersonSeen /\ cmds = <<Speak("person_detecting_warn")>>)
    /\ notify # "none" => Said("person_detecting_warn")

C17_Witness ==
    /\ Returned
    /\ GatePassed
    /\ PersonSeen
    /\ tick.before = 60001
    /\ tick.now = 120001
    /\ last_detected_time = 60001
    /\ notify = "none"
    /\ cmds = <<Speak("person_detecting_warn")>>

\* the positions at which handle() holds a MutexGuard of device.inner
LockedPositions == { Holding(pos) : pos \in CommandPositions }

\* C20: handle() holds the lock of the actuator handle exactly while one of
\* its commands executes: it holds none when it is about to issue a command
\* (so "high_temp" has released it before stop), none at the notification
\* decision or the notification, none when it has returned; a command that
\* holds the lock can always finish and release it, a command waiting for the
\* lock is kept waiting only by another holder, and between any two commands
\* another holder can take the lock.
C20_LockScope ==
    /\ lock = "handle" <=> hpc \in LockedPositions
    /\ hpc \in CommandPositions \cup {"throttle", "notify", "idle"} => lock # "handle"
    /\ hpc \in LockedPositions => ENABLED Execute
    /\ (hpc \in CommandPositions /\ lock # "other") => ENABLED Acquire
    /\ hpc \notin LockedPositions => (lock = "other" \/ ENABLED OtherAcquire)

C20_Witness ==
    /\ hpc = "stop"
    /\ cmds = <<Speak("high_temp")>>
    /\ tick.state.pi_temp = 701
    /\ lock = "other"

----------------------------------------------------------------------------
(* Properties of MonitorPerson over any sequence of ticks *)

\* the clock reading of the most recent notification, 0 before the first
LastNotified == IF notified_at = <<>> THEN 0 ELSE notified_at[Len(notified_at)]

\* C18: over any sequence of handle() calls, whatever the clock shows, any
\* two successive notifications are more than 60000 ms apart, and
\* last_detected_time is the clock reading of the most recent notification,
\* 0 before the first: calls that do not notify leave it alone. While a call
\* is about to send its notification, last_detected_time already holds the
\* reading that notification will carry.
C18_MinimumInterval ==
    /\ \A i \in 1..(Len(notified_at) - 1) : notified_at[i + 1] - notified_at[i] > 60000
    /\ hpc # "notify" => last_detected_time = LastNotified
    /\ hpc = "notify" => (last_detected_time = tick.now /\ tick.now - LastNotified > 60000)

C18_Witness ==
    /\ notified_at = <<60001, 120002>>
    /\ last_detected_time = 120002
    /\ Returned
    /\ ~tick.state.state
    /\ notify = "none"

----------------------------------------------------------------------------
(* Properties of the output channel *)

\* C19 as stated: with a live receiver, however few Neighbors it has taken,
\* the worker can handle whatever event comes next without waiting for the
\* consumer, it is still running after every swarm frame it handled, and
\* every swarm frame handled so far has its Neighbor on the channel or with
\* the consumer: none is missing.
C19_Stated ==
    rx_alive =>
        /\ \A w \in DOMAIN pc : (pc[w] = "running" /\ Len(accepted) < MaxFrames) =>
                \A e \in Events, now \in ClockReadings : ENABLED OnEvent(w, e, now)
        /\ (IsSwarmFrame(event) /\ pc[by] # "finished") => pc[by] = "running"
        /\ Len(Placed) = Len(accepted)

====
